---- MODULE Spec2Model ----
(***************************************************************************)
(* Model of termux_exec_compat.c: the exec-family interposition shim.      *)
(*                                                                         *)
(* C strings are sequences of one-character strings.  The null pointer is  *)
(* NULL, a sequence no C string can equal.  A file's content is the        *)
(* sequence of its bytes, or NoFile when open() fails.                     *)
(***************************************************************************)
EXTENDS Integers, Sequences, FiniteSets, TLC

(* ------------------------------ bounds --------------------------------- *)
\* longest string drawn exhaustively over PathAlphabet
MaxLen == 3
\* longest file content drawn exhaustively over FileAlphabet
MaxFileLen == 3
\* largest original argc drawn
MaxArgc == 2
\* longest PATH value drawn exhaustively over SearchAlphabet
MaxPathEnvLen == 4

(* ------------------------- program constants --------------------------- *)
PATH_MAX == 4096
\* char buf[512] in parse_shebang
BUF_SIZE == 512

NULL == <<"NULL">>
NoFile == <<"NOFILE">>
NUL == "NUL"
TAB == "\t"
LF == "\n"
CR == "\r"

legacy_data == <<"/","d","a","t","a","/","d","a","t","a","/","c","o","m",".","t","e","r","m","u","x","/","f","i","l","e","s","/","u","s","r">>
legacy_user == <<"/","d","a","t","a","/","u","s","e","r","/","0","/","c","o","m",".","t","e","r","m","u","x","/","f","i","l","e","s","/","u","s","r">>
linker64 == <<"/","s","y","s","t","e","m","/","b","i","n","/","l","i","n","k","e","r","6","4">>
linker32 == <<"/","s","y","s","t","e","m","/","b","i","n","/","l","i","n","k","e","r">>
system_root == <<"/","s","y","s","t","e","m","/">>
apex_root == <<"/","a","p","e","x","/">>
files_prefix_marker == <<"/","f","i","l","e","s","/","p","r","e","f","i","x","/">>
default_path == <<"/","s","y","s","t","e","m","/","b","i","n">>
elf_magic == <<"DEL","E","L","F">>

(* ----------------------------- libc ------------------------------------ *)
Min(a, b) == IF a < b THEN a ELSE b

\* n copies of the character c
Rep(c, n) == [i \in 1..n |-> c]

strlen(s) == Len(s)

\* strncmp(value, prefix, strlen(prefix)) == 0
starts_with(value, prefix) ==
    /\ value # NULL
    /\ prefix # NULL
    /\ Len(prefix) <= Len(value)
    /\ SubSeq(value, 1, Len(prefix)) = prefix

\* strstr(haystack, needle) != NULL
strstr(haystack, needle) ==
    \E i \in 0..(Len(haystack) - Len(needle)) :
        \A j \in 1..Len(needle) : haystack[i + j] = needle[j]

\* strchr(s, c) != NULL
strchr(s, c) == \E i \in 1..Len(s) : s[i] = c

\* what snprintf leaves in a buffer of out_size bytes: at most out_size - 1 characters
snprintf_out(s, out_size) == SubSeq(s, 1, Min(Len(s), out_size - 1))

is_linker_path(path) == path # NULL /\ (path = linker64 \/ path = linker32)

\* has64: access("/system/bin/linker64", X_OK) == 0
select_system_linker(has64) == IF has64 THEN linker64 ELSE linker32

(* ------------------------ Legacy Path Remapper ------------------------- *)
\* faulty variant: the result of snprintf is not checked against out_size
map_legacy_termux_usr_path_NoFit(path, e) ==
    IF path = NULL THEN [ok |-> FALSE, out |-> NULL]
    ELSE IF e.PREFIX = NULL \/ e.PREFIX = <<>> THEN [ok |-> FALSE, out |-> NULL]
    ELSE LET matched == starts_with(path, legacy_data) \/ starts_with(path, legacy_user)
             suffix == IF starts_with(path, legacy_data)
                       THEN SubSeq(path, strlen(legacy_data) + 1, Len(path))
                       ELSE SubSeq(path, strlen(legacy_user) + 1, Len(path))
         IN IF ~matched THEN [ok |-> FALSE, out |-> NULL]
            ELSE [ok |-> TRUE, out |-> snprintf_out(e.PREFIX \o suffix, PATH_MAX)]

\* e is the environment: e.PREFIX is getenv("PREFIX"), NULL when unset
map_legacy_termux_usr_path(path, e) ==
    IF path = NULL THEN [ok |-> FALSE, out |-> NULL]
    ELSE IF e.PREFIX = NULL \/ e.PREFIX = <<>> THEN [ok |-> FALSE, out |-> NULL]
    ELSE LET matched == starts_with(path, legacy_data) \/ starts_with(path, legacy_user)
             suffix == IF starts_with(path, legacy_data)
                       THEN SubSeq(path, strlen(legacy_data) + 1, Len(path))
                       ELSE SubSeq(path, strlen(legacy_user) + 1, Len(path))
             n == Len(e.PREFIX) + Len(suffix)
         IN IF ~matched THEN [ok |-> FALSE, out |-> NULL]
            ELSE [ok |-> n > 0 /\ n < PATH_MAX,
                  out |-> snprintf_out(e.PREFIX \o suffix, PATH_MAX)]

(* --------------------------- Path Classifier --------------------------- *)
\* faulty variant: the "/files/prefix/" rule is missing
path_in_prefix_NoMarker(path, e) ==
    IF path = NULL \/ path = <<>> \/ path[1] # "/" THEN FALSE
    ELSE LET m == map_legacy_termux_usr_path(path, e)
             check_path == IF m.ok THEN m.out ELSE path
         IN \/ (e.TERMUX__ROOTFS # NULL /\ e.TERMUX__ROOTFS # <<>>
                    /\ starts_with(check_path, e.TERMUX__ROOTFS))
            \/ (e.PREFIX # NULL /\ e.PREFIX # <<>> /\ starts_with(check_path, e.PREFIX))

path_in_prefix(path, e) ==
    IF path = NULL \/ path = <<>> \/ path[1] # "/" THEN FALSE
    ELSE LET m == map_legacy_termux_usr_path(path, e)
             check_path == IF m.ok THEN m.out ELSE path
         IN \/ (e.TERMUX__ROOTFS # NULL /\ e.TERMUX__ROOTFS # <<>>
                    /\ starts_with(check_path, e.TERMUX__ROOTFS))
            \/ (e.PREFIX # NULL /\ e.PREFIX # <<>> /\ starts_with(check_path, e.PREFIX))
            \/ strstr(check_path, files_prefix_marker)

(* ----------------------- Binary Format Detector ------------------------ *)
\* content: the bytes of the file at path, NoFile when open() fails
is_elf_binary(content) ==
    /\ content # NoFile
    /\ Min(Len(content), 4) = 4
    /\ content[1] = "DEL" /\ content[2] = "E" /\ content[3] = "L" /\ content[4] = "F"

(* ---------------------------- Shebang Parser --------------------------- *)
\* memset(out, 0, sizeof(*out))
shebang_zero == [ok |-> FALSE, interpreter |-> <<>>, arg |-> <<>>, has_arg |-> FALSE]

\* buf[i] (i counted from 0) after n bytes were read and buf[n] = '\0' was stored
buf_at(content, n, i) == IF i < n THEN content[i + 1] ELSE NUL

\* the least element of a non-empty set of indices
least(S) == CHOOSE j \in S : \A k \in S : j <= k

\* while (*p == ' ' || *p == '\t') p++;
\* the scan ends at buf[n] = '\0' at the latest
skip_blanks(content, n, p) ==
    least({j \in p..n : buf_at(content, n, j) \notin {" ", TAB}})

\* while (*end && *end != ' ' && *end != '\t' && *end != '\n' && *end != '\r') end++;
token_end(content, n, end) ==
    least({j \in end..n : buf_at(content, n, j) \in {NUL, " ", TAB, LF, CR}})

\* while (*arg_end && *arg_end != '\n' && *arg_end != '\r') arg_end++;
line_end(content, n, arg_end) ==
    least({j \in arg_end..n : buf_at(content, n, j) \in {NUL, LF, CR}})

parse_shebang(content) ==
    IF content = NoFile THEN shebang_zero
    ELSE LET n == Min(Len(content), BUF_SIZE - 1) IN
    IF n <= 2 THEN shebang_zero
    ELSE IF ~(buf_at(content, n, 0) = "#" /\ buf_at(content, n, 1) = "!") THEN shebang_zero
    ELSE LET p == skip_blanks(content, n, 2) IN
    IF buf_at(content, n, p) # "/" THEN shebang_zero
    ELSE LET end == token_end(content, n, p)
             len == end - p
         IN
    IF len = 0 \/ len >= PATH_MAX THEN shebang_zero
    ELSE LET interpreter == SubSeq(content, p + 1, end)
             a == skip_blanks(content, n, end)
             arg_end == line_end(content, n, a)
             arg_len == arg_end - a
         IN
    IF buf_at(content, n, a) \notin {NUL, LF, CR} /\ arg_len > 0 /\ arg_len < PATH_MAX
    THEN [ok |-> TRUE, interpreter |-> interpreter,
          arg |-> SubSeq(content, a + 1, arg_end), has_arg |-> TRUE]
    ELSE [ok |-> TRUE, interpreter |-> interpreter, arg |-> <<>>, has_arg |-> FALSE]

(* ------------------------------ Exec Planner --------------------------- *)
\* faulty variant: the /system/ and /apex/ exclusion is missing
should_wrap_elf_NoSystemCheck(filename, content, e) ==
    IF filename = NULL \/ filename = <<>> \/ filename[1] # "/" THEN FALSE
    ELSE IF is_linker_path(filename) THEN FALSE
    ELSE IF ~path_in_prefix(filename, e) THEN FALSE
    ELSE is_elf_binary(content)

should_wrap_elf(filename, content, e) ==
    IF filename = NULL \/ filename = <<>> \/ filename[1] # "/" THEN FALSE
    ELSE IF is_linker_path(filename) THEN FALSE
    ELSE IF starts_with(filename, system_root) \/ starts_with(filename, apex_root) THEN FALSE
    ELSE IF ~path_in_prefix(filename, e) THEN FALSE
    ELSE is_elf_binary(content)

(* ------------------------------ Argv Builder --------------------------- *)
\* An argv array is the sequence of its slots, the terminating NULL included;
\* NullArgv is the argv pointer NULL (no array at all).
NullArgv == <<>>

RECURSIVE count_from(_, _)
\* while (argv[argc]) argc++;   (argc counted from 0)
count_from(argv, argc) ==
    IF argv[argc + 1] # NULL THEN count_from(argv, argc + 1) ELSE argc

count_argv(argv) == IF argv = NullArgv THEN 0 ELSE count_from(argv, 0)

\* the indices of argv (from 0) the builders read: the counting loop, then the copy loop
argv_reads(argv) ==
    IF argv = NullArgv THEN {}
    ELSE (0..count_argv(argv)) \cup (1..(count_argv(argv) - 1))

\* calloc(nmemb, sizeof(char *)): nmemb slots, all NULL
calloc(nmemb) == [i \in 1..nmemb |-> NULL]

\* the real exec primitive: outcome "OK" replaces the image, anything else is the errno.
\* The outcome is chosen by the platform; that covers a vector without a NULL inside its
\* allocation, which the primitive reads past its end with an undefined result.
real_execve(file, argv, envp, outcome) ==
    [made |-> TRUE, file |-> file, argv |-> argv, envp |-> envp,
     rc |-> IF outcome = "OK" THEN 0 ELSE -1,
     errno |-> IF outcome = "OK" THEN "none" ELSE outcome]

no_call(errno) ==
    [made |-> FALSE, file |-> NULL, argv |-> NullArgv, envp |-> "none",
     rc |-> -1, errno |-> errno]

\* envp ? envp : environ
env_or_environ(envp) == IF envp = "NULL" THEN "environ" ELSE envp

\* the result of one branch of the planner: the disposition taken, the allocation
\* (alloc slots, new_argv their final content; alloc = 0 when nothing was allocated)
\* and the call made to the real exec primitive
built(disp, alloc, new_argv, call) ==
    [disp |-> disp, alloc |-> alloc, new_argv |-> new_argv, call |-> call]

\* faulty variant: the copy loop starts at argv[0], which overwrites the target
execve_via_linker_KeepArgv0(filename, argv, envp, e, allocOk, outcome) ==
    LET linker == select_system_linker(e.has64)
        argc == count_argv(argv)
        new_argv == [i \in 1..(argc + 2) |->
                        IF i = 1 THEN linker
                        ELSE IF i = 2 THEN (IF argc >= 1 THEN argv[1] ELSE filename)
                        ELSE IF i - 2 < argc THEN argv[i - 1]
                        ELSE NULL]
    IN IF ~allocOk THEN built("WrapBinary", 0, <<>>, no_call("ENOMEM"))
       ELSE built("WrapBinary", argc + 2, new_argv,
                  real_execve(linker, new_argv, env_or_environ(envp), outcome))

execve_via_linker(filename, argv, envp, e, allocOk, outcome) ==
    LET linker == select_system_linker(e.has64)
        argc == count_argv(argv)
        \* new_argv[0] = linker; new_argv[1] = filename; new_argv[i + 1] = argv[i], 1 <= i < argc
        new_argv == [i \in 1..(argc + 2) |->
                        IF i = 1 THEN linker
                        ELSE IF i = 2 THEN filename
                        ELSE IF i - 2 < argc THEN argv[i - 1]
                        ELSE calloc(argc + 2)[i]]
    IN IF ~allocOk THEN built("WrapBinary", 0, <<>>, no_call("ENOMEM"))
       ELSE built("WrapBinary", argc + 2, new_argv,
                  real_execve(linker, new_argv, env_or_environ(envp), outcome))

\* interpreter: sb.interpreter after the legacy remap (lines 230-234)
script_interpreter(sb, e) ==
    LET m == map_legacy_termux_usr_path(sb.interpreter, e)
    IN IF m.ok THEN m.out ELSE sb.interpreter

\* faulty variant: the interpreter is not remapped before it is used
exec_script_via_linker_NoRemap(filename, sb, argv, envp, e, allocOk, outcome) ==
    IF sb.interpreter = <<>> THEN built("None", 0, <<>>, no_call("ENOEXEC"))
    ELSE LET interpreter == sb.interpreter IN
    IF ~path_in_prefix(interpreter, e)
    THEN built("Passthrough", 0, <<>>,
               real_execve(filename, argv, env_or_environ(envp), outcome))
    ELSE LET linker == select_system_linker(e.has64)
             argc == count_argv(argv)
             fixed == IF sb.has_arg THEN 4 ELSE 3
             new_argv == [i \in 1..(argc + fixed) |->
                            IF i = 1 THEN linker
                            ELSE IF i = 2 THEN interpreter
                            ELSE IF i = 3 /\ sb.has_arg THEN sb.arg
                            ELSE IF i = fixed THEN filename
                            ELSE IF i - fixed < argc THEN argv[i - fixed + 1]
                            ELSE calloc(argc + fixed)[i]]
         IN IF ~allocOk THEN built("WrapScript", 0, <<>>, no_call("ENOMEM"))
            ELSE built("WrapScript", argc + fixed, new_argv,
                       real_execve(linker, new_argv, env_or_environ(envp), outcome))

exec_script_via_linker(filename, sb, argv, envp, e, allocOk, outcome) ==
    IF sb.interpreter = <<>> THEN built("None", 0, <<>>, no_call("ENOEXEC"))
    ELSE LET interpreter == script_interpreter(sb, e) IN
    IF ~path_in_prefix(interpreter, e)
    THEN built("Passthrough", 0, <<>>,
               real_execve(filename, argv, env_or_environ(envp), outcome))
    ELSE LET linker == select_system_linker(e.has64)
             argc == count_argv(argv)
             fixed == IF sb.has_arg THEN 4 ELSE 3
             new_argv == [i \in 1..(argc + fixed) |->
                            IF i = 1 THEN linker
                            ELSE IF i = 2 THEN interpreter
                            ELSE IF i = 3 /\ sb.has_arg THEN sb.arg
                            ELSE IF i = fixed THEN filename
                            ELSE IF i - fixed < argc THEN argv[i - fixed + 1]
                            ELSE calloc(argc + fixed)[i]]
         IN IF ~allocOk THEN built("WrapScript", 0, <<>>, no_call("ENOMEM"))
            ELSE built("WrapScript", argc + fixed, new_argv,
                       real_execve(linker, new_argv, env_or_environ(envp), outcome))

(* --------------------------- Entry Point: execve ----------------------- *)
libc_execve == <<"libc execve">>

\* fn: real_execve_fn; e.dlsym: whether dlsym(RTLD_NEXT, "execve") finds the symbol
init_real_execve(fn, e) ==
    IF fn = NULL THEN (IF e.dlsym THEN libc_execve ELSE NULL) ELSE fn

\* lines 281-285
effective_filename(filename, e) ==
    LET m == map_legacy_termux_usr_path(filename, e)
    IN IF m.ok THEN m.out ELSE filename

planned(effective, sb, b) ==
    [disp |-> b.disp, effective |-> effective, sb |-> sb,
     alloc |-> b.alloc, new_argv |-> b.new_argv, call |-> b.call]

\* content: the bytes of the file at the effective filename (NoFile when it cannot be
\* opened); fn: real_execve_fn after init_real_execve
execve(filename, argv, envp, fn, e, content, allocOk, outcome) ==
    IF fn = NULL
    THEN planned(filename, shebang_zero, built("None", 0, <<>>, no_call("ENOSYS")))
    ELSE LET eff == effective_filename(filename, e) IN
    IF should_wrap_elf(eff, content, e)
    THEN planned(eff, shebang_zero, execve_via_linker(eff, argv, envp, e, allocOk, outcome))
    ELSE LET sb == parse_shebang(content) IN
    IF path_in_prefix(eff, e) /\ sb.ok
    THEN planned(eff, sb, exec_script_via_linker(eff, sb, argv, envp, e, allocOk, outcome))
    ELSE planned(eff, shebang_zero,
                 built("Direct", 0, <<>>,
                       real_execve(eff, argv, env_or_environ(envp), outcome)))

(* ----------------------- Directory-Search Adapter ---------------------- *)
\* strtok_r(str, ":", &saveptr) on the text s still to be scanned: the leading ':' are
\* skipped, the token runs to the next ':' or to the end; token NULL when nothing is left
strtok_r(s) ==
    LET start == least({i \in 1..(Len(s) + 1) : i = Len(s) + 1 \/ s[i] # ":"})
        stop == least({j \in start..(Len(s) + 1) : j = Len(s) + 1 \/ s[j] = ":"})
    IN IF start > Len(s)
       THEN [token |-> NULL, saveptr |-> <<>>]
       ELSE [token |-> SubSeq(s, start, stop - 1), saveptr |-> SubSeq(s, stop + 1, Len(s))]

\* getenv("PATH"), "/system/bin" when unset or empty
path_env(e) == IF e.PATH = NULL \/ e.PATH = <<>> THEN default_path ELSE e.PATH

\* snprintf(candidate, sizeof(candidate), "%s/%s", dir, file) with dir = token[0] ? token : "."
candidate_of(token, file) ==
    (IF token # <<>> THEN token ELSE <<".">>) \o <<"/">> \o file

\* !(n <= 0 || (size_t)n >= sizeof(candidate))
candidate_fits(candidate) == Len(candidate) > 0 /\ Len(candidate) < PATH_MAX

\* faulty variant: every errno is remembered
remember_Always(saved_errno, errno) == errno

\* if (errno != ENOENT && errno != ENOTDIR) saved_errno = errno;
remember(saved_errno, errno) ==
    IF errno # "ENOENT" /\ errno # "ENOTDIR" THEN errno ELSE saved_errno

\* the loop's step to the next token; with none left: free, errno = saved_errno, return -1
advance(s) ==
    LET t == strtok_r(s.saveptr)
    IN IF t.token = NULL
       THEN [s EXCEPT !.pc = "returned", !.token = NULL, !.saveptr = t.saveptr,
                      !.errno = s.saved_errno, !.rc = -1]
       ELSE [s EXCEPT !.token = t.token, !.saveptr = t.saveptr]

attempt(candidate, errno) == [candidate |-> candidate, errno |-> errno]

\* faulty variant: the loop returns at the first error that is not ENOENT / ENOTDIR
after_exec_Break(s, candidate, r) ==
    IF r.call.made /\ r.call.rc = 0
    THEN [s EXCEPT !.pc = "replaced",
                   !.attempts = Append(@, attempt(candidate, "none"))]
    ELSE IF r.call.errno # "ENOENT" /\ r.call.errno # "ENOTDIR"
    THEN [s EXCEPT !.pc = "returned", !.errno = r.call.errno, !.rc = -1,
                   !.saved_errno = r.call.errno,
                   !.attempts = Append(@, attempt(candidate, r.call.errno))]
    ELSE advance([s EXCEPT !.errno = r.call.errno,
                           !.attempts = Append(@, attempt(candidate, r.call.errno))])

\* the loop body after execve(candidate, argv, envp) gave r
after_exec(s, candidate, r) ==
    IF r.call.made /\ r.call.rc = 0
    THEN [s EXCEPT !.pc = "replaced",
                   !.attempts = Append(@, attempt(candidate, "none"))]
    ELSE advance([s EXCEPT !.errno = r.call.errno,
                           !.saved_errno = remember(@, r.call.errno),
                           !.attempts = Append(@, attempt(candidate, r.call.errno))])

(* ------------------------------- inputs -------------------------------- *)
PathAlphabet == {"/", "p", "x"}
FileAlphabet == {"#", "!", "/", " ", LF, "a"}

\* every string over alphabet of length at most n
Strs(alphabet, n) == UNION {[1..k -> alphabet] : k \in 0..n}

managed_root == <<"/", "p">>
alternate_root == <<"/", "r">>

\* a legacy path whose rewrite under managed_root has exactly n characters
legacy_of_rewritten_length(n) ==
    legacy_data \o <<"/">> \o Rep("x", n - Len(managed_root) - 1)

PathInputs ==
    {NULL}
    \cup Strs(PathAlphabet, MaxLen)
    \cup {pre \o s : pre \in {legacy_data, legacy_user, alternate_root},
                     s \in Strs(PathAlphabet, MaxLen)}
    \cup {<<"x">> \o legacy_data \o <<"/", "x">>,
          Tail(legacy_user) \o <<"/", "x">>,
          SubSeq(legacy_data, 1, Len(legacy_data) - 1),
          <<"/", "x">> \o files_prefix_marker \o <<"x">>,
          files_prefix_marker,
          SubSeq(files_prefix_marker, 1, Len(files_prefix_marker) - 1),
          Tail(files_prefix_marker),
          linker64, linker32,
          legacy_of_rewritten_length(PATH_MAX - 1),
          legacy_of_rewritten_length(PATH_MAX)}

PrefixInputs == {NULL, <<>>, managed_root, legacy_data}
RootfsInputs == {NULL, <<>>, alternate_root}

FileInputs ==
    {NoFile}
    \cup Strs(FileAlphabet, MaxFileLen)
    \cup {<<"#", "!">> \o s : s \in Strs(FileAlphabet, MaxFileLen)}
    \cup {elf_magic, elf_magic \o <<"a">>, SubSeq(elf_magic, 1, 3), <<"E", "L", "F", "a">>,
          \* "#!/managed/root/bin/python3 -u\n"
          <<"#","!","/","m","a","n","a","g","e","d","/","r","o","o","t","/","b","i","n","/","p","y","t","h","o","n","3"," ","-","u",LF>>,
          \* "#!/system/bin/sh\n"
          <<"#","!","/","s","y","s","t","e","m","/","b","i","n","/","s","h",LF>>,
          \* "#! \t/p/sh \t-x  y \r\nz"
          <<"#","!"," ",TAB,"/","p","/","s","h"," ",TAB,"-","x"," "," ","y"," ",CR,LF,"z">>,
          \* "#!/p/sh" then a NUL byte
          <<"#","!","/","p","/","s","h",NUL,"a">>,
          \* an interpreter token that ends exactly at, and one that runs past, the buffer
          <<"#", "!", "/">> \o Rep("a", BUF_SIZE - 4) \o <<LF>>,
          <<"#", "!", "/">> \o Rep("a", BUF_SIZE - 4),
          <<"#", "!", "/">> \o Rep("a", BUF_SIZE) \o <<LF>>,
          <<"#", "!", "/", "p", " ">> \o Rep("a", BUF_SIZE) \o <<LF>>,
          \* an interpreter token and an argument of PATH_MAX characters
          <<"#", "!">> \o <<"/">> \o Rep("a", PATH_MAX - 1) \o <<LF>>,
          <<"#", "!", "/", "p", " ">> \o Rep("a", PATH_MAX) \o <<LF>>}

(* ------------------------------- state --------------------------------- *)
VARIABLES
    env,             \* the process environment and what the platform provides
    real_execve_fn,  \* the memoized real exec primitive, NULL until resolved
    path_in,         \* the path handed to the remapper and the classifier
    file_in,         \* the content of the file handed to the detector and the parser
    remap,           \* the map_legacy_termux_usr_path call and its result
    classify,        \* the path_in_prefix call and its result
    elf,             \* the is_elf_binary call and its result
    shebang,         \* the parse_shebang call and its result
    req,             \* the request the host process makes: [filename, argv, envp]
    exec,            \* the last execve call: its inputs, its result, whether it replaced the image
    search           \* search_path_and_exec: its position, its locals, errno, the attempts made

helperVars == <<path_in, file_in, remap, classify, elf, shebang>>
vars == <<env, real_execve_fn, helperVars, req, exec, search>>

EnvOf(prefix, rootfs, path, has64, dlsym) ==
    [PREFIX |-> prefix, TERMUX__ROOTFS |-> rootfs, PATH |-> path,
     has64 |-> has64, dlsym |-> dlsym]

request(filename, argv, envp) == [filename |-> filename, argv |-> argv, envp |-> envp]

\* what the platform answers during one call: the content of the file at the effective
\* filename, whether calloc succeeds, and the outcome of the real exec primitive
exec_inputs(content, allocOk, outcome) ==
    [content |-> content, allocOk |-> allocOk, outcome |-> outcome]

InitCalls ==
    /\ real_execve_fn = NULL
    /\ remap = [called |-> FALSE, ok |-> FALSE, out |-> NULL]
    /\ classify = [called |-> FALSE, res |-> FALSE]
    /\ elf = [called |-> FALSE, res |-> FALSE]
    /\ shebang = [called |-> FALSE] @@ shebang_zero
    /\ exec = [called |-> FALSE, replaced |-> FALSE]
                @@ exec_inputs(NoFile, TRUE, "OK")
                @@ planned(NULL, shebang_zero, built("None", 0, <<>>, no_call("none")))
    /\ search = [pc |-> "idle", envp |-> "none", token |-> NULL, saveptr |-> <<>>,
                 saved_errno |-> "none", attempts |-> <<>>, errno |-> "none", rc |-> 0]

(* -------------------- remapper and classifier calls -------------------- *)
InitPaths ==
    /\ \E prefix \in PrefixInputs, rootfs \in RootfsInputs :
           env = EnvOf(prefix, rootfs, NULL, TRUE, TRUE)
    /\ path_in \in PathInputs
    /\ file_in = NoFile
    /\ req = request(NULL, NullArgv, "NULL")
    /\ InitCalls

Remap ==
    /\ ~remap.called
    /\ remap' = [called |-> TRUE] @@ map_legacy_termux_usr_path(path_in, env)
    /\ UNCHANGED <<env, real_execve_fn, path_in, file_in, classify, elf, shebang, req, exec, search>>

Classify ==
    /\ ~classify.called
    /\ classify' = [called |-> TRUE, res |-> path_in_prefix(path_in, env)]
    /\ UNCHANGED <<env, real_execve_fn, path_in, file_in, remap, elf, shebang, req, exec, search>>

NextPaths == Remap \/ Classify

SpecPaths == InitPaths /\ [][NextPaths]_vars

(* ---------------------- detector and parser calls ---------------------- *)
InitFiles ==
    /\ env = EnvOf(NULL, NULL, NULL, TRUE, TRUE)
    /\ path_in = NULL
    /\ file_in \in FileInputs
    /\ req = request(NULL, NullArgv, "NULL")
    /\ InitCalls

IsElf ==
    /\ ~elf.called
    /\ elf' = [called |-> TRUE, res |-> is_elf_binary(file_in)]
    /\ UNCHANGED <<env, real_execve_fn, path_in, file_in, remap, classify, shebang, req, exec, search>>

ParseShebang ==
    /\ ~shebang.called
    /\ shebang' = [called |-> TRUE] @@ parse_shebang(file_in)
    /\ UNCHANGED <<env, real_execve_fn, path_in, file_in, remap, classify, elf, req, exec, search>>

NextFiles == IsElf \/ ParseShebang

SpecFiles == InitFiles /\ [][NextFiles]_vars

(* ----------------------------- execve calls ---------------------------- *)
\* argv[i] of the drawn vectors: i + 1 copies of 'a', so that the arguments differ
arg_no(i) == Rep("a", i + 1)

\* the argv array of argc arguments, its terminator included
argv_of(argc) == [i \in 1..(argc + 1) |-> IF i <= argc THEN arg_no(i - 1) ELSE NULL]

ArgvInputs == {NullArgv} \cup {argv_of(argc) : argc \in 0..MaxArgc}

whole_root == <<"/">>

ExecFilenames ==
    {NULL,
     <<"x">>,
     <<"/", "x">>,
     managed_root \o <<"/", "x">>,
     legacy_data \o <<"/", "x">>,
     system_root \o <<"x">>,
     apex_root \o <<"x">>,
     linker64,
     linker32,
     <<"/", "x">> \o files_prefix_marker \o <<"x">>}

ExecContents ==
    {NoFile,
     <<"#", "!">>,
     elf_magic \o <<"a">>,
     SubSeq(elf_magic, 1, 3),
     \* "#!/p/x -u\n", "#!/p/x\n"
     <<"#", "!">> \o managed_root \o <<"/", "x", " ", "-", "u", LF>>,
     <<"#", "!">> \o managed_root \o <<"/", "x", LF>>,
     \* "#!/data/data/com.termux/files/usr/x\n"
     <<"#", "!">> \o legacy_data \o <<"/", "x", LF>>,
     \* "#!/system/bin/sh\n"
     <<"#","!","/","s","y","s","t","e","m","/","b","i","n","/","s","h",LF>>}

Outcomes == {"OK", "ENOENT", "EACCES"}

InitExec ==
    /\ \E prefix \in {NULL, managed_root}, rootfs \in {NULL, whole_root},
          has64 \in BOOLEAN, dlsym \in BOOLEAN :
           env = EnvOf(prefix, rootfs, NULL, has64, dlsym)
    /\ path_in = NULL
    /\ file_in = NoFile
    /\ \E filename \in ExecFilenames, argv \in ArgvInputs, envp \in {"NULL", "envp"} :
           req = request(filename, argv, envp)
    /\ InitCalls

\* the call execve(req.filename, req.argv, req.envp) of the host process
Execve(content, allocOk, outcome) ==
    /\ ~exec.called
    /\ req.filename = NULL => content = NoFile
    /\ LET fn == init_real_execve(real_execve_fn, env)
           r == execve(req.filename, req.argv, req.envp, fn, env, content, allocOk, outcome)
       IN /\ real_execve_fn' = fn
          /\ exec' = [called |-> TRUE, replaced |-> r.call.made /\ r.call.rc = 0]
                        @@ exec_inputs(content, allocOk, outcome)
                        @@ r
    /\ UNCHANGED <<env, helperVars, req, search>>

\* the call execv(req.filename, req.argv): execve with environ
Execv(content, allocOk, outcome) ==
    /\ ~exec.called
    /\ req.envp = "NULL"
    /\ req.filename = NULL => content = NoFile
    /\ LET fn == init_real_execve(real_execve_fn, env)
           r == execve(req.filename, req.argv, "environ", fn, env, content, allocOk, outcome)
       IN /\ real_execve_fn' = fn
          /\ exec' = [called |-> TRUE, replaced |-> r.call.made /\ r.call.rc = 0]
                        @@ exec_inputs(content, allocOk, outcome)
                        @@ r
    /\ UNCHANGED <<env, helperVars, req, search>>

NextExec ==
    \/ \E content \in ExecContents, allocOk \in BOOLEAN, outcome \in Outcomes :
           Execve(content, allocOk, outcome)
    \/ \E content \in ExecContents, allocOk \in BOOLEAN, outcome \in Outcomes :
           Execv(content, allocOk, outcome)

SpecExec == InitExec /\ [][NextExec]_vars

(* ------------------------ execvp / execvpe calls ----------------------- *)
SearchAlphabet == {":", "/", "a"}

tool == <<"t">>

PathEnvInputs ==
    {NULL}
    \cup Strs(SearchAlphabet, MaxPathEnvLen)
    \cup {<<"/","a",":","/","b">>, <<":","/","a",":",":","b",":">>}

SearchFiles == {NULL, <<>>, tool, <<"a", "/", "t">>, managed_root \o <<"/", "t">>}

\* a name whose candidate fits behind a one-character directory only
long_tool == Rep("t", PATH_MAX - 3)

LongToolPaths == {<<"/","a",":","a">>, <<"a",":","/","a",":","a">>}

SearchContents == {NoFile, elf_magic \o <<"a">>}

SearchOutcomes == {"OK", "ENOENT", "ENOTDIR", "EACCES", "ENOEXEC"}

InitSearch ==
    /\ \E prefix \in {NULL, <<"/", "a">>}, path \in PathEnvInputs \cup LongToolPaths :
           env = EnvOf(prefix, NULL, path, TRUE, TRUE)
    /\ path_in = NULL
    /\ file_in = NoFile
    /\ \E file \in SearchFiles \cup {long_tool} :
           /\ file = long_tool => env.PATH \in LongToolPaths
           /\ req = request(file, argv_of(1), "envp")
    /\ InitCalls

\* execvp (entry = "execvp": envp is environ) or execvpe, up to the first strtok_r
SearchStart(entry, strdupOk, content, allocOk, outcome) ==
    /\ search.pc = "idle"
    /\ LET envp == IF entry = "execvp" THEN "environ" ELSE env_or_environ(req.envp)
           file == req.filename
           s == [search EXCEPT !.envp = envp]
       IN IF file = NULL \/ file = <<>>
          THEN /\ search' = [s EXCEPT !.pc = "returned", !.errno = "ENOENT", !.rc = -1]
               /\ UNCHANGED real_execve_fn
          ELSE IF strchr(file, "/")
          THEN LET fn == init_real_execve(real_execve_fn, env)
                   r == execve(file, req.argv, envp, fn, env, content, allocOk, outcome)
               IN /\ real_execve_fn' = fn
                  /\ search' = IF r.call.made /\ r.call.rc = 0
                               THEN [s EXCEPT !.pc = "replaced",
                                              !.attempts = <<attempt(file, "none")>>]
                               ELSE [s EXCEPT !.pc = "returned", !.errno = r.call.errno,
                                              !.rc = -1,
                                              !.attempts = <<attempt(file, r.call.errno)>>]
          ELSE IF ~strdupOk
          THEN /\ search' = [s EXCEPT !.pc = "returned", !.errno = "ENOMEM", !.rc = -1]
               /\ UNCHANGED real_execve_fn
          ELSE /\ search' = advance([s EXCEPT !.pc = "loop", !.saved_errno = "ENOENT",
                                              !.saveptr = path_env(env)])
               /\ UNCHANGED real_execve_fn
    /\ UNCHANGED <<env, helperVars, req, exec>>

\* one iteration of the loop over the PATH tokens
SearchStep(content, allocOk, outcome) ==
    /\ search.pc = "loop"
    /\ LET candidate == candidate_of(search.token, req.filename)
       IN IF ~candidate_fits(candidate)
          THEN /\ search' = advance(search)
               /\ UNCHANGED real_execve_fn
          ELSE LET fn == init_real_execve(real_execve_fn, env)
                   r == execve(candidate, req.argv, search.envp, fn, env,
                               content, allocOk, outcome)
               IN /\ real_execve_fn' = fn
                  /\ search' = after_exec(search, candidate, r)
    /\ UNCHANGED <<env, helperVars, req, exec>>

NextSearch ==
    \/ \E entry \in {"execvp", "execvpe"}, strdupOk \in BOOLEAN,
          content \in SearchContents, allocOk \in BOOLEAN, outcome \in SearchOutcomes :
           SearchStart(entry, strdupOk, content, allocOk, outcome)
    \/ \E content \in SearchContents, allocOk \in BOOLEAN, outcome \in SearchOutcomes :
           SearchStep(content, allocOk, outcome)

SpecSearch == InitSearch /\ [][NextSearch]_vars

(* ------------------- properties of the remapper (C8) ------------------- *)
IsAbsolute(p) == p # NULL /\ p # <<>> /\ p[1] = "/"

BeginsWith(p, pre) ==
    p # NULL /\ Len(pre) <= Len(p) /\ \A i \in 1..Len(pre) : p[i] = pre[i]

LegacyPrefixes == {legacy_data, legacy_user}

HasLegacyPrefix(p) == IsAbsolute(p) /\ \E pre \in LegacyPrefixes : BeginsWith(p, pre)

\* p with its legacy prefix removed
LegacySuffix(p) ==
    LET pre == CHOOSE q \in LegacyPrefixes : BeginsWith(p, q)
    IN SubSeq(p, Len(pre) + 1, Len(p))

RootIsSet(root) == root # NULL /\ root # <<>>

\* C8 as stated: every absolute path that begins with a legacy prefix is rewritten to
\* PREFIX followed by the path without the legacy prefix; every other path is not rewritten.
C8_AsStated ==
    remap.called =>
        IF HasLegacyPrefix(path_in)
        THEN remap.ok /\ remap.out = env.PREFIX \o LegacySuffix(path_in)
        ELSE ~remap.ok

\* C8, amended: an absolute path that begins with a legacy prefix is rewritten to PREFIX
\* followed by the path without the legacy prefix, provided PREFIX is set and non-empty and
\* the rewritten path is shorter than PATH_MAX; in every other case (PREFIX unset or empty,
\* a rewritten path of PATH_MAX characters or more, no legacy prefix, a relative path) the
\* remapper signals "no rewrite".
C8_Remap ==
    remap.called =>
        IF /\ HasLegacyPrefix(path_in)
           /\ RootIsSet(env.PREFIX)
           /\ Len(env.PREFIX) + Len(LegacySuffix(path_in)) < PATH_MAX
        THEN remap.ok /\ remap.out = env.PREFIX \o LegacySuffix(path_in)
        ELSE ~remap.ok

C8_Witness ==
    /\ remap.called
    /\ remap.ok
    /\ BeginsWith(path_in, legacy_user)
    /\ Len(LegacySuffix(path_in)) = MaxLen
    /\ env.PREFIX = managed_root

(* ------------------ properties of the classifier (C9) ------------------ *)
Contains(p, sub) ==
    \E i \in 1..(Len(p) - Len(sub) + 1) : \A j \in 1..Len(sub) : p[i + j - 1] = sub[j]

\* the path the classifier checks: the remapped form when the remap succeeds
CheckedPath(p, e) ==
    LET m == map_legacy_termux_usr_path(p, e) IN IF m.ok THEN m.out ELSE p

\* C9: path_in_prefix returns true iff the path is absolute and the checked path starts
\* with a set, non-empty TERMUX__ROOTFS, or starts with a set, non-empty PREFIX, or
\* contains "/files/prefix/"; so it is false for every relative path, and a path the
\* remapper leaves alone is classified by the three rules applied to the path itself.
C9_Classifier ==
    classify.called =>
        /\ classify.res =
             (/\ IsAbsolute(path_in)
              /\ \/ RootIsSet(env.TERMUX__ROOTFS)
                      /\ BeginsWith(CheckedPath(path_in, env), env.TERMUX__ROOTFS)
                 \/ RootIsSet(env.PREFIX)
                      /\ BeginsWith(CheckedPath(path_in, env), env.PREFIX)
                 \/ Contains(CheckedPath(path_in, env), files_prefix_marker))
        /\ (~IsAbsolute(path_in) => ~classify.res)
        /\ (~map_legacy_termux_usr_path(path_in, env).ok /\ IsAbsolute(path_in) =>
              classify.res =
                (\/ RootIsSet(env.TERMUX__ROOTFS) /\ BeginsWith(path_in, env.TERMUX__ROOTFS)
                 \/ RootIsSet(env.PREFIX) /\ BeginsWith(path_in, env.PREFIX)
                 \/ Contains(path_in, files_prefix_marker)))

\* a legacy path classified in-environment only through its remapped form
C9_Witness ==
    /\ classify.called
    /\ classify.res
    /\ HasLegacyPrefix(path_in)
    /\ env.PREFIX = managed_root
    /\ ~RootIsSet(env.TERMUX__ROOTFS)
    /\ ~Contains(path_in, files_prefix_marker)

(* ------------------ properties of the parser (C10) --------------------- *)
Blank == {" ", TAB}
LineBreak == {LF, CR}

\* the file from its (i+1)-th byte on
FileFrom(file, i) == SubSeq(file, i + 1, Len(file))

\* the longest prefix of s that holds no character of stop
UpTo(s, stop) ==
    LET ends == {k \in 0..Len(s) : k = Len(s) \/ s[k + 1] \in stop}
    IN SubSeq(s, 1, least(ends))

\* s without its leading blanks
Unblank(s) ==
    LET starts == {k \in 0..Len(s) : k = Len(s) \/ s[k + 1] \notin Blank}
    IN SubSeq(s, least(starts) + 1, Len(s))

\* the first token of the file after "#!" and blanks, and the rest of its line
\* (a NUL byte ends a C string, so it ends the token and the line too)
FileToken(file) == UpTo(Unblank(FileFrom(file, 2)), Blank \cup LineBreak \cup {NUL})
FileArg(file) ==
    LET t == Unblank(FileFrom(file, 2))
    IN UpTo(Unblank(FileFrom(t, Len(FileToken(file)))), LineBreak \cup {NUL})

\* C10 as stated: the parser succeeds only on a file of at least 3 bytes that starts with
\* "#!" and whose first token starts with '/'; on success the interpreter is that whole
\* token and the argument is the whole rest of the line (present iff non-empty); a token
\* or an argument longer than the maximum length makes the parse fail.
C10_AsStated ==
    shebang.called =>
        /\ shebang.ok =>
              /\ file_in # NoFile
              /\ Len(file_in) >= 3
              /\ SubSeq(file_in, 1, 2) = <<"#", "!">>
              /\ IsAbsolute(FileToken(file_in))
              /\ shebang.interpreter = FileToken(file_in)
              /\ shebang.has_arg = (FileArg(file_in) # <<>>)
              /\ shebang.arg = FileArg(file_in)
        /\ ~shebang.ok =>
              /\ shebang.interpreter = <<>>
              /\ shebang.arg = <<>>
              /\ ~shebang.has_arg
        /\ (/\ file_in # NoFile
            /\ Len(file_in) >= 3
            /\ \/ Len(FileToken(file_in)) >= PATH_MAX
               \/ Len(FileArg(file_in)) >= PATH_MAX) => ~shebang.ok

(* --------------- properties of the Argv Builder (C2, C3) --------------- *)
Linkers == {linker64, linker32}

\* the request's argc: the number of arguments before the terminator, 0 for a NULL argv
OriginalArgc == IF req.argv = NullArgv THEN 0 ELSE Len(req.argv) - 1

\* the original arguments at index >= 1, in order
OriginalRest == IF OriginalArgc <= 1 THEN <<>> ELSE SubSeq(req.argv, 2, OriginalArgc)

\* a vector was built and handed to the real exec primitive
BuiltVector ==
    /\ exec.called
    /\ exec.disp \in {"WrapBinary", "WrapScript"}
    /\ exec.call.made

\* the slots of the allocation before its first NULL (all of them when none is NULL)
Elements(slots) ==
    LET nulls == {i \in 1..Len(slots) : slots[i] = NULL}
    IN IF nulls = {} THEN slots ELSE SubSeq(slots, 1, least(nulls) - 1)

FixedPrefix ==
    IF exec.disp = "WrapBinary" THEN <<exec.call.file, exec.effective>>
    ELSE IF exec.sb.has_arg
         THEN <<exec.call.file, script_interpreter(exec.sb, env), exec.sb.arg, exec.effective>>
         ELSE <<exec.call.file, script_interpreter(exec.sb, env), exec.effective>>

\* C2 as stated: every vector the Argv Builder hands to the real exec primitive holds a
\* NULL inside its own allocation and has exactly one slot more than its elements, for
\* every original argv (any length, empty, NULL).
C2_AsStated ==
    BuiltVector =>
        /\ exec.call.argv = exec.new_argv
        /\ Len(exec.new_argv) = exec.alloc
        /\ \E i \in 1..exec.alloc : exec.new_argv[i] = NULL
        /\ exec.alloc = Len(Elements(exec.new_argv)) + 1

\* C3 as stated: for every argc, argc = 0 included, the built vector has exactly
\* fixed_prefix_count + (argc - 1) elements: the fixed prefix, then argv[1..] in order;
\* and no index >= argc of the original is read.
C3_AsStated ==
    BuiltVector =>
        /\ Len(FixedPrefix) \in (IF exec.disp = "WrapBinary" THEN {2} ELSE {3, 4})
        /\ Len(Elements(exec.new_argv)) = Len(FixedPrefix) + (OriginalArgc - 1)
        /\ Elements(exec.new_argv) = FixedPrefix \o OriginalRest
        /\ \A i \in argv_reads(req.argv) : i < OriginalArgc

\* C3, amended: for every argc >= 1 the built vector has exactly
\* fixed_prefix_count + (argc - 1) elements, and for argc = 0 (an empty or a NULL argv)
\* exactly fixed_prefix_count; fixed_prefix_count is 2 for WrapBinary and 3 or 4 for
\* WrapScript (4 iff the shebang carried an argument); the elements are
\* [linker, target, argv[1..]], resp. [linker, interpreter, arg?, script, argv[1..]], with
\* the original arguments in their order and argv[0] dropped; no index > argc of the
\* original is read (index argc, the terminator, is read by the counting loop), and a NULL
\* argv is not read at all.
C3_Builder ==
    BuiltVector =>
        /\ Len(FixedPrefix) = (IF exec.disp = "WrapBinary" THEN 2
                               ELSE IF parse_shebang(exec.content).has_arg THEN 4 ELSE 3)
        /\ Len(Elements(exec.new_argv)) =
             Len(FixedPrefix) + (IF OriginalArgc >= 1 THEN OriginalArgc - 1 ELSE 0)
        /\ Elements(exec.new_argv) = FixedPrefix \o OriginalRest
        /\ exec.call.file \in Linkers
        /\ \A i \in argv_reads(req.argv) : i <= OriginalArgc
        /\ req.argv = NullArgv => argv_reads(req.argv) = {}

\* a script with a shebang argument wrapped with two original arguments
C3_Witness ==
    /\ BuiltVector
    /\ exec.disp = "WrapScript"
    /\ exec.sb.has_arg
    /\ OriginalArgc = 2
    /\ Len(exec.new_argv) = 6

(* ---------------- properties of the Exec Planner (C4, C5) -------------- *)
\* the request's path after the legacy remap
RemappedPath(p) ==
    IF HasLegacyPrefix(p) /\ RootIsSet(env.PREFIX)
         /\ Len(env.PREFIX) + Len(LegacySuffix(p)) < PATH_MAX
    THEN env.PREFIX \o LegacySuffix(p)
    ELSE p

\* the five conditions of the planner's first rule
WrapBinaryRule(p, content) ==
    /\ IsAbsolute(p)
    /\ p \notin Linkers
    /\ ~BeginsWith(p, system_root) /\ ~BeginsWith(p, apex_root)
    /\ path_in_prefix(p, env)
    /\ content # NoFile /\ Len(content) >= 4 /\ SubSeq(content, 1, 4) = elf_magic

\* the planner was reached: the real exec primitive is resolved
Planned == exec.called /\ exec.disp # "None"

\* C4: execve takes the WrapBinary branch exactly when the remapped path is absolute, is
\* not a system linker, is not under /system/ or /apex/, is in-environment and starts
\* with the ELF magic; the branch calls the real exec primitive on the system linker with
\* [linker, remapped path, argv[1..]] (when the allocation succeeds); a request that
\* passes is never handled as a script, and one that fails is never run with a built
\* binary-wrapper vector.
C4_WrapBinary ==
    Planned =>
        LET p == RemappedPath(req.filename)
            rule == WrapBinaryRule(p, exec.content)
        IN /\ (exec.disp = "WrapBinary") = rule
           /\ rule =>
                /\ exec.sb = shebang_zero
                /\ exec.call.made = exec.allocOk
                /\ exec.call.made =>
                     /\ exec.call.file = select_system_linker(env.has64)
                     /\ exec.call.argv[1] = exec.call.file
                     /\ exec.call.argv[2] = p
                     /\ Elements(exec.call.argv) = <<exec.call.file, p>> \o OriginalRest
           /\ (~rule /\ exec.call.made) =>
                \/ exec.disp = "WrapScript"
                \/ exec.call.file = p /\ exec.call.argv = req.argv /\ exec.alloc = 0

\* an ELF file at a legacy path is wrapped under its remapped path
C4_Witness ==
    /\ Planned
    /\ exec.disp = "WrapBinary"
    /\ exec.call.made
    /\ HasLegacyPrefix(req.filename)
    /\ exec.call.argv[2] = managed_root \o <<"/", "x">>
    /\ OriginalArgc = MaxArgc

\* C5: for a request that is not WrapBinary, whose path is in-environment and whose
\* shebang parses, the interpreter after the legacy remap decides: in-environment, the
\* real exec primitive is called on the system linker with the remapped interpreter in
\* the new argv (WrapScript; no call at all when the allocation fails); otherwise the
\* real exec primitive is called once with the script path and the original argv, and the
\* linker is not involved (Passthrough).
C5_Script ==
    Planned =>
        LET p == RemappedPath(req.filename)
            sb == parse_shebang(exec.content)
            interpreter == RemappedPath(sb.interpreter)
        IN (/\ ~WrapBinaryRule(p, exec.content)
            /\ path_in_prefix(p, env)
            /\ sb.ok) =>
             IF path_in_prefix(interpreter, env)
             THEN /\ exec.disp = "WrapScript"
                  /\ exec.call.made = exec.allocOk
                  /\ exec.call.made =>
                       /\ exec.call.file = select_system_linker(env.has64)
                       /\ exec.call.argv[1] = exec.call.file
                       /\ exec.call.argv[2] = interpreter
             ELSE /\ exec.disp = "Passthrough"
                  /\ exec.call.made
                  /\ exec.call.file = p
                  /\ exec.call.argv = req.argv
                  /\ exec.alloc = 0

\* a script whose legacy interpreter is wrapped under its remapped path
C5_Witness ==
    /\ Planned
    /\ exec.disp = "WrapScript"
    /\ exec.call.made
    /\ HasLegacyPrefix(exec.sb.interpreter)
    /\ exec.call.argv[2] # exec.sb.interpreter

(* --------- properties of the Directory-Search Adapter (C1, C6, C7) ----- *)
\* the request is a name without '/', and the search loop was entered
Searched ==
    /\ search.pc # "idle"
    /\ req.filename # NULL /\ req.filename # <<>>
    /\ \A i \in 1..Len(req.filename) : req.filename[i] # "/"
    /\ search.saved_errno # "none"

PathList == IF env.PATH = NULL \/ env.PATH = <<>> THEN default_path ELSE env.PATH

\* the position of the k-th ':' of s; 0 for k = 0, Len(s) + 1 past the last one
ColonAt(s, k) ==
    LET colons == {i \in 1..Len(s) : s[i] = ":"}
    IN IF k = 0 THEN 0
       ELSE IF k > Cardinality(colons) THEN Len(s) + 1
       ELSE CHOOSE i \in colons : Cardinality({j \in colons : j <= i}) = k

\* s split on ':', the empty segments kept
Segments(s) ==
    [k \in 1..(Cardinality({i \in 1..Len(s) : s[i] = ":"}) + 1) |->
        SubSeq(s, ColonAt(s, k - 1) + 1, ColonAt(s, k) - 1)]

DirectoryOf(segment) == IF segment = <<>> THEN <<".">> ELSE segment

CandidateIn(segment) == DirectoryOf(segment) \o <<"/">> \o req.filename

Fits(candidate) == Len(candidate) < PATH_MAX

NonEmpty(segment) == segment # <<>>

\* the candidates of all segments, an empty segment standing for the current directory
AllCandidates == [k \in 1..Len(Segments(PathList)) |-> CandidateIn(Segments(PathList)[k])]

\* the candidates of the non-empty segments
NonEmptyCandidates ==
    LET segs == SelectSeq(Segments(PathList), NonEmpty)
    IN [k \in 1..Len(segs) |-> CandidateIn(segs[k])]

Attempted == [i \in 1..Len(search.attempts) |-> search.attempts[i].candidate]

IsPrefixOf(a, b) == Len(a) <= Len(b) /\ SubSeq(b, 1, Len(a)) = a

\* a is b with some elements left out, the order kept
IsSubsequenceOf(a, b) ==
    \E f \in [1..Len(a) -> 1..Len(b)] :
        /\ \A i \in 1..Len(a) : a[i] = b[f[i]]
        /\ \A i, j \in 1..Len(a) : i < j => f[i] < f[j]

NotFound == {"ENOENT", "ENOTDIR"}

\* C1 as stated: the candidates are attempted in left-to-right PATH order, and no
\* directory is attempted after an attempt that failed with something other than
\* ENOENT / ENOTDIR.
C1_AsStated ==
    Searched =>
        /\ IsSubsequenceOf(Attempted, AllCandidates)
        /\ \A i \in 1..(Len(search.attempts) - 1) : search.attempts[i].errno \in NotFound

\* C1, amended: the candidates directory + "/" + name of the non-empty PATH segments
\* (those shorter than PATH_MAX) are attempted strictly in left-to-right PATH order, and
\* no failure stops the search: whatever the error of an attempt, ENOENT / ENOTDIR or
\* not, the next candidate is attempted, and the search returns only when every such
\* candidate was attempted (it ends earlier only when an attempt replaces the image).
C1_Order ==
    Searched =>
        /\ IsPrefixOf(Attempted, SelectSeq(NonEmptyCandidates, Fits))
        /\ search.pc = "returned" => Attempted = SelectSeq(NonEmptyCandidates, Fits)
        /\ \A i \in 1..Len(search.attempts) :
              search.attempts[i].errno = "none" => i = Len(search.attempts)
        /\ search.pc = "replaced" <=>
              /\ search.attempts # <<>>
              /\ search.attempts[Len(search.attempts)].errno = "none"

\* PATH="/a:/b": /a/t failed with EACCES and /b/t was attempted all the same
C1_Witness ==
    /\ Searched
    /\ env.PATH = <<"/","a",":","/","b">>
    /\ search.pc = "returned"
    /\ search.attempts = <<attempt(<<"/","a","/","t">>, "EACCES"),
                           attempt(<<"/","b","/","t">>, "ENOENT")>>

\* the error of the last attempt that failed with something other than ENOENT / ENOTDIR
LastSpecificError ==
    LET specific == {i \in 1..Len(search.attempts) : search.attempts[i].errno \notin NotFound}
    IN IF specific = {} THEN "ENOENT"
       ELSE search.attempts[CHOOSE i \in specific : \A j \in specific : j <= i].errno

\* C6: when the PATH list is exhausted without a successful attempt, the search returns
\* -1 with errno set to the error of the most recent attempt that failed with something
\* other than ENOENT / ENOTDIR, or to ENOENT when there was none.
C6_LastError ==
    (Searched /\ search.pc = "returned") =>
        /\ search.rc = -1
        /\ search.errno = LastSpecificError
        /\ search.errno = search.saved_errno

\* three attempts, the last specific error followed by a "not a directory"
C6_Witness ==
    /\ Searched
    /\ search.pc = "returned"
    /\ Len(search.attempts) = 3
    /\ search.attempts[1].errno = "EACCES"
    /\ search.attempts[2].errno = "ENOEXEC"
    /\ search.attempts[3].errno = "ENOTDIR"
    /\ search.errno = "ENOEXEC"

\* C7 as stated: the PATH list is split on ':' and every empty segment is attempted, at
\* its position, as the current directory: the candidate "./" + name.
C7_AsStated ==
    Searched =>
        /\ IsPrefixOf(Attempted, SelectSeq(AllCandidates, Fits))
        /\ search.pc = "returned" => Attempted = SelectSeq(AllCandidates, Fits)

====
